---- MODULE Spec2Model ----
(***************************************************************************)
(* PrairieViewMeta (element_interface/prairie_view_loader.py): the         *)
(* metadata-driven file resolver, the page index calculator and the        *)
(* reassembly of per-frame TIFF files, write_single_bigtiff.               *)
(*                                                                         *)
(* Four specifications share the variables:                                *)
(*   SpecTargets  the page index calculation (lines 135-141) applied to    *)
(*                every metadata record within the bounds;                 *)
(*   SpecResolve  get_prairieview_filenames (lines 51-97) applied to       *)
(*                every descriptor within the bounds;                      *)
(*   Spec         write_single_bigtiff (lines 99-211) called repeatedly on *)
(*                one output directory, one step per statement that        *)
(*                opens, reads, writes or closes a file.                   *)
(*   SpecShared   the same calls on an output directory that already holds *)
(*                the output files of other (plane, channel) pairs.        *)
(***************************************************************************)
EXTENDS Integers, Sequences, FiniteSets, TLC

VARIABLES
    channels,          \* meta["channels"]: list(set) of the File records' channels
    plane_indices,     \* meta["plane_indices"]: list(set) of the Frame indices
    n_frames,          \* number of Frame records of the descriptor (line 233)
    is_multipage,      \* meta["is_multipage"]
    xml_files,         \* the descriptor's Sequence/Frame/File records, in document order
    src_pages,         \* source directory: file name -> number of pages in the file
    page_size,         \* bytes one written page adds to an output file
    disk,              \* output directory: output file -> its pages
    pc,                \* position in write_single_bigtiff ("idle": no call running)
    args,              \* arguments of the running (or last) call
    plane_idx,         \* plane selected by get_prairieview_filenames
    channel,           \* channel selected by get_prairieview_filenames
    tiff_names,        \* resolved file names not yet consumed
    page_indices,      \* target page list (multi-page layout)
    combined_data,     \* output buffer (multi-page layout)
    start_page,        \* global page index of the open file's first page
    output_tiff_list,  \* output files completed by the running call
    input_file,        \* open source files (TiffFile handles)
    tiff_writer,       \* open output writers (TiffWriter handles)
    result,            \* outcome of the last call
    prev,              \* arguments and files of the last call that wrote the output
    touched,           \* output files the running (or last) call wrote or deleted
    target             \* the (plane, channel) stream the calls of a run ask for

meta == <<channels, plane_indices, n_frames, is_multipage>>
files == <<xml_files, src_pages, page_size>>
locals == <<plane_idx, channel, tiff_names, page_indices, combined_data, start_page,
            output_tiff_list, input_file, tiff_writer>>
calls == <<pc, args, result, prev, touched, target>>
vars == <<meta, files, disk, locals, calls>>

(***************************************************************************)
(* Bounds.                                                                 *)
(***************************************************************************)
MaxChannels == 2      \* channels of a descriptor
MaxPlanes == 3        \* planes of a descriptor
MaxNFrames == 30      \* Frame records of a descriptor (SpecTargets)

\* Python's None, for an omitted plane_idx, channel or gb_per_file.
None == 0 - 1

ChannelIds == 1..MaxChannels
PlaneIds == 0..MaxPlanes

\* Lists without repetition, of 1..n elements of S: list(set(...)) of lines 379-380,
\* in whatever order the set iterates.
RECURSIVE ListsOf(_, _)
ListsOf(S, n) ==
    IF n = 0 THEN {<<>>}
    ELSE LET shorter == ListsOf(S, n - 1)
         IN  shorter \cup
             {Append(l, x) : <<l, x>> \in
                 {y \in shorter \X S : Len(y[1]) = n - 1 /\ \A i \in 1..Len(y[1]) : y[1][i] # y[2]}}

NonEmptyLists(S, n) == ListsOf(S, n) \ {<<>>}

(***************************************************************************)
(* The metadata record, PrairieViewMeta.meta.                              *)
(***************************************************************************)
num_channels == Len(channels)
num_planes == Len(plane_indices)

\* The Frame count taken as the count of time steps, without the division of line 45.
num_frames_unadjusted == n_frames

\* meta["num_frames"] after the adjustment of line 45: int(n_frames / num_planes).
num_frames == n_frames \div num_planes

\* list.index(x): the 0-based position of the first x.
Index(list, x) ==
    CHOOSE i \in 0..(Len(list) - 1) :
        list[i + 1] = x /\ \A j \in 0..(i - 1) : list[j + 1] # x

InList(list, x) == \E i \in 1..Len(list) : list[i] = x

(***************************************************************************)
(* The page index calculation of write_single_bigtiff, lines 135-141.      *)
(***************************************************************************)
\* The nesting of planes and channels transposed: a plane step of num_planes.
slice_step_transposed == num_planes

\* Lines 135-136: channels vary fastest, then planes, then time steps.
slice_step == num_channels
frame_step == num_channels * num_planes

PageIndices(pln, chn) ==
    LET slice_idx == Index(plane_indices, pln)
        channel_idx == Index(channels, chn)
    IN  [frame_idx1 \in 1..num_frames |->
            (frame_idx1 - 1) * frame_step + slice_idx * slice_step + channel_idx]

(***************************************************************************)
(* SpecTargets: the calculation applied to every (plane, channel) of every *)
(* metadata record within the bounds.                                      *)
(***************************************************************************)
IdleLocals ==
    /\ plane_idx = None /\ channel = None /\ tiff_names = <<>>
    /\ page_indices = <<>> /\ combined_data = <<>> /\ start_page = 0
    /\ output_tiff_list = <<>> /\ input_file = {} /\ tiff_writer = {}

NoArgs == [plane_idx |-> None, channel |-> None, overwrite |-> FALSE, gb_per_file |-> None]
NoResult == [status |-> "none", error |-> "ok", single |-> FALSE, files |-> {}]
NoPrev == [args |-> NoArgs, files |-> {}]
NoTarget == [plane_idx |-> None, channel |-> None]

IdleCalls ==
    /\ pc = "idle" /\ args = NoArgs /\ result = NoResult /\ prev = NoPrev
    /\ touched = {} /\ target = NoTarget

InitTargets ==
    /\ channels \in NonEmptyLists(ChannelIds, MaxChannels)
    /\ plane_indices \in NonEmptyLists(PlaneIds, MaxPlanes)
    \* every plane index is the index of a Frame of the first cycle (lines 304-308)
    /\ n_frames \in num_planes..MaxNFrames
    /\ is_multipage = TRUE
    /\ xml_files = <<>> /\ src_pages = <<>> /\ page_size = 1
    /\ disk = <<>>
    /\ IdleLocals /\ IdleCalls

ComputeTargets ==
    /\ pc = "idle"
    /\ \E pln \in PlaneIds, chn \in ChannelIds :
        /\ InList(plane_indices, pln) /\ InList(channels, chn)
        /\ plane_idx' = pln /\ channel' = chn
        /\ page_indices' = PageIndices(pln, chn)
    /\ pc' = "targets"
    /\ UNCHANGED <<meta, files, disk, tiff_names, combined_data, start_page,
                   output_tiff_list, input_file, tiff_writer,
                   args, result, prev, touched, target>>

NextTargets == ComputeTargets

SpecTargets == InitTargets /\ [][NextTargets]_vars

\* C4: for every (plane, channel) pair of the metadata the target page list has
\* exactly num_timepoints entries, entry t is
\* t*(num_channels*num_planes) + plane_pos*num_channels + channel_pos, and the list is
\* strictly increasing; 2 channels, 3 planes, 10 timepoints, plane position 1,
\* channel position 0 give [2, 8, 14, 20, 26, 32, 38, 44, 50, 56].
TargetsFollowInterleave ==
    pc = "targets" =>
        LET plane_pos == Index(plane_indices, plane_idx)
            channel_pos == Index(channels, channel)
            num_timepoints == n_frames \div Len(plane_indices)
        IN  /\ Len(page_indices) = num_timepoints
            /\ \A t \in 0..(num_timepoints - 1) :
                   page_indices[t + 1] =
                       t * (Len(channels) * Len(plane_indices))
                         + plane_pos * Len(channels) + channel_pos
            /\ \A t \in 1..(Len(page_indices) - 1) : page_indices[t] < page_indices[t + 1]
            /\ (Len(channels) = 2 /\ Len(plane_indices) = 3 /\ num_timepoints = 10
                   /\ plane_pos = 1 /\ channel_pos = 0)
                   => page_indices = <<2, 8, 14, 20, 26, 32, 38, 44, 50, 56>>

TargetsExampleReached ==
    /\ pc = "targets"
    /\ Len(channels) = 2 /\ Len(plane_indices) = 3 /\ n_frames = 30
    /\ Index(plane_indices, plane_idx) = 1 /\ Index(channels, channel) = 0
    /\ page_indices = <<2, 8, 14, 20, 26, 32, 38, 44, 50, 56>>

\* C5 as claimed: every entry of the target page list is strictly less than num_pages,
\* the number of Frame records n_frames, for any number of channels and planes.
TargetsBelowNFrames ==
    pc = "targets" => \A t \in 1..Len(page_indices) : page_indices[t] < n_frames

\* C5, amended: every entry of the target page list is strictly less than
\* num_timepoints * num_planes * num_channels, which is at most
\* n_frames * num_channels; it is below n_frames when there is one channel.
TargetsBelowPageCount ==
    pc = "targets" =>
        LET num_timepoints == n_frames \div Len(plane_indices)
            pages == num_timepoints * Len(plane_indices) * Len(channels)
        IN  /\ \A t \in 1..Len(page_indices) : page_indices[t] < pages
            /\ pages <= n_frames * Len(channels)
            /\ Len(channels) = 1 =>
                   \A t \in 1..Len(page_indices) : page_indices[t] < n_frames

\* A two-channel record whose last target is the last page of the acquisition,
\* at or beyond n_frames.
TargetsReachLastPage ==
    /\ pc = "targets"
    /\ Len(channels) = 2 /\ Len(plane_indices) = 2 /\ n_frames = 4
    /\ Len(page_indices) = 2
    /\ page_indices[2] = 7
    /\ page_indices[2] >= n_frames

select_plane_first(arg) ==
    IF arg = None
    THEN [error |-> "ok", value |-> plane_indices[1]]
    ELSE IF InList(plane_indices, arg)
         THEN [error |-> "ok", value |-> arg]
         ELSE [error |-> "AssertionError", value |-> None]

\* Lines 63-73: the plane the call is about, or the error it raises.
select_plane(arg) ==
    IF arg = None
    THEN IF num_planes > 1
         THEN [error |-> "ValueError", value |-> None]
         ELSE [error |-> "ok", value |-> plane_indices[1]]
    ELSE IF InList(plane_indices, arg)
         THEN [error |-> "ok", value |-> arg]
         ELSE [error |-> "AssertionError", value |-> None]

\* Lines 75-85: likewise for the channel.
select_channel(arg) ==
    IF arg = None
    THEN IF num_channels > 1
         THEN [error |-> "ValueError", value |-> None]
         ELSE [error |-> "ok", value |-> channels[1]]
    ELSE IF InList(channels, arg)
         THEN [error |-> "ok", value |-> arg]
         ELSE [error |-> "AssertionError", value |-> None]

\* Lines 88-94: the File records under Frame[@index=plane]/File[@channel=channel];
\* a single-plane descriptor is not searched by @index.
frames(pln, chn) ==
    SelectSeq(xml_files,
              LAMBDA f : /\ (num_planes > 1 => f.index = pln)
                         /\ f.channel = chn)

\* np.unique (line 96): the distinct values, sorted ascending.
RECURSIVE SortedList(_)
SortedList(S) ==
    IF S = {} THEN <<>>
    ELSE LET least == CHOOSE x \in S : \A y \in S : x <= y
         IN  <<least>> \o SortedList(S \ {least})

np_unique(list) == SortedList({list[i] : i \in 1..Len(list)})

\* The whole method: the error raised, or (fnames, plane_idx, channel).
get_prairieview_filenames(pln_arg, chn_arg) ==
    LET p == select_plane(pln_arg)
        c == select_channel(chn_arg)
    IN  IF p.error # "ok"
        THEN [error |-> p.error, fnames |-> <<>>, plane_idx |-> None, channel |-> None]
        ELSE IF c.error # "ok"
        THEN [error |-> c.error, fnames |-> <<>>, plane_idx |-> None, channel |-> None]
        ELSE LET matched == frames(p.value, c.value)
             IN  [error |-> "ok",
                  fnames |-> np_unique([i \in 1..Len(matched) |-> matched[i].filename]),
                  plane_idx |-> p.value, channel |-> c.value]

(***************************************************************************)
(* SpecResolve: get_prairieview_filenames on every descriptor within the   *)
(* bounds. File names are numbers; their order is the names' sort order.   *)
(***************************************************************************)
MaxRecords == 3       \* File records of a descriptor (SpecResolve)
MaxNames == 3         \* distinct file names (SpecResolve)

ResolvePlanes == {1, 2}
ResolveChannels == {1, 2}

FileRecords == [index : ResolvePlanes, channel : ResolveChannels, filename : 1..MaxNames]

RECURSIVE SeqsUpTo(_, _)
SeqsUpTo(S, n) ==
    IF n = 0 THEN {<<>>}
    ELSE LET shorter == SeqsUpTo(S, n - 1)
         IN  shorter \cup {Append(l, x) : <<l, x>> \in {y \in shorter \X S : Len(y[1]) = n - 1}}

Orderings(S) == {l \in ListsOf(S, Cardinality(S)) : Len(l) = Cardinality(S)}

InitResolve ==
    /\ xml_files \in SeqsUpTo(FileRecords, MaxRecords) \ {<<>>}
    /\ channels \in Orderings({xml_files[i].channel : i \in 1..Len(xml_files)})
    \* one plane: plane_indices is {0} (line 295); else the Frame indices (line 308)
    /\ LET indices == {xml_files[i].index : i \in 1..Len(xml_files)}
       IN  plane_indices \in (IF Cardinality(indices) = 1 THEN {<<0>>} ELSE Orderings(indices))
    /\ n_frames = Len(xml_files)
    /\ is_multipage = FALSE
    /\ src_pages = <<>> /\ page_size = 1
    /\ disk = <<>>
    /\ IdleLocals /\ IdleCalls

Resolve ==
    /\ pc = "idle"
    /\ \E pln_arg \in {None, 0, 1, 2, 3}, chn_arg \in {None, 1, 2, 3} :
        LET r == get_prairieview_filenames(pln_arg, chn_arg)
        IN  /\ args' = [NoArgs EXCEPT !.plane_idx = pln_arg, !.channel = chn_arg]
            /\ result' = [NoResult EXCEPT !.status = IF r.error = "ok" THEN "returned" ELSE "raised",
                                          !.error = r.error]
            /\ tiff_names' = r.fnames
            /\ plane_idx' = r.plane_idx
            /\ channel' = r.channel
    /\ pc' = "resolved"
    /\ UNCHANGED <<meta, files, disk, page_indices, combined_data, start_page,
                   output_tiff_list, input_file, tiff_writer,
                   prev, touched, target>>

NextResolve == Resolve

SpecResolve == InitResolve /\ [][NextResolve]_vars

\* The names of a list with duplicates removed, in first-seen order.
RECURSIVE FirstSeen(_)
FirstSeen(list) ==
    IF list = <<>> THEN <<>>
    ELSE LET n == Len(list)
             before == FirstSeen(SubSeq(list, 1, n - 1))
         IN  IF InList(before, list[n]) THEN before ELSE Append(before, list[n])

\* C9: get_prairieview_filenames returns the file names of the File records matching
\* the requested plane and channel, duplicates removed, in the order in which each
\* name is first seen in the descriptor, whatever that order is.
ResolvedInFirstSeenOrder ==
    (pc = "resolved" /\ result.status = "returned") =>
        LET matched == frames(plane_idx, channel)
        IN  tiff_names = FirstSeen([i \in 1..Len(matched) |-> matched[i].filename])

(***************************************************************************)
(* write_single_bigtiff, lines 99-211.                                     *)
(*                                                                         *)
(* An output file is <<plane, channel, part>>: the file                    *)
(* {output_prefix}_pln{plane}_chn{channel}_{part:04}.tif of output_dir,    *)
(* every call giving the same output_prefix and output_dir. A page is      *)
(* <<file name, offset in the file>>; a slot of np.empty that nothing has  *)
(* filled is <<None, g>>, g being whatever the memory held. Sizes are in   *)
(* units of 1024**3 bytes, so that the threshold gb_per_file * 1024**3 of  *)
(* line 207 is gb_per_file units.                                          *)
(***************************************************************************)
MaxFrames == 3        \* time steps of an acquisition (Spec)
MaxFiles == 2         \* source files of a stream in the multi-page layout (Spec)
MaxPageSize == 2      \* size of a written page (Spec)
MaxThreshold == 3     \* gb_per_file of a call (Spec)

MainChannelLists == {<<1>>, <<2, 1>>}
MainPlaneLists == {<<0>>, <<1, 2>>}
InvalidIds == {7}
Uninitialised == {0, 1}

\* The name of the i-th file of a stream; a stream's names sort by i.
FileName(pln, chn, i) == i * 100 + pln * 10 + chn
FileNumber(name) == name \div 100

\* A descriptor with one File record per file, plane and channel, in acquisition order.
Descriptor(nfiles) ==
    [k \in 1..(nfiles * num_planes * num_channels) |->
        LET i == ((k - 1) \div (num_planes * num_channels)) + 1
            pln == plane_indices[(((k - 1) % (num_planes * num_channels)) \div num_channels) + 1]
            chn == channels[((k - 1) % num_channels) + 1]
        IN  [index |-> pln, channel |-> chn, filename |-> FileName(pln, chn, i)]]

RECURSIVE Sum(_)
Sum(list) == IF list = <<>> THEN 0 ELSE Head(list) + Sum(Tail(list))

\* Page counts of a stream's files. Multi-page: any division of the acquisition's
\* pages into 1..MaxFiles files. Legacy: one page per file, but for at most one file
\* that holds two.
Layouts ==
    IF is_multipage
    THEN {counts \in SeqsUpTo(1..(num_frames * num_planes * num_channels), MaxFiles) :
              counts # <<>> /\ Sum(counts) = num_frames * num_planes * num_channels}
    ELSE {[i \in 1..num_frames |-> IF i = bad THEN 2 ELSE 1] : bad \in 0..num_frames}

Init ==
    /\ channels \in MainChannelLists
    /\ plane_indices \in MainPlaneLists
    /\ n_frames \in {T * num_planes : T \in 1..MaxFrames}
    /\ is_multipage \in BOOLEAN
    /\ page_size \in (IF is_multipage THEN {1} ELSE 1..MaxPageSize)
    /\ \E counts \in Layouts :
        /\ xml_files = Descriptor(Len(counts))
        /\ src_pages = [name \in {xml_files[k].filename : k \in 1..Len(xml_files)} |->
                            counts[FileNumber(name)]]
    /\ disk = <<>>
    /\ IdleLocals
    /\ pc = "idle" /\ args = NoArgs /\ result = NoResult /\ prev = NoPrev /\ touched = {}
    /\ target \in {[plane_idx |-> plane_indices[i], channel |-> channels[j]] :
                       i \in 1..num_planes, j \in 1..num_channels}

\* Decimal digits of a number, as f"{channel}" writes them.
RECURSIVE Digits(_)
Digits(n) == IF n < 10 THEN <<n>> ELSE Append(Digits(n \div 10), n % 10)

IsPrefix(s, t) == Len(s) <= Len(t) /\ SubSeq(t, 1, Len(s)) = s

\* Lines 116-119: output_dir.glob(f"{output_tiff_stem}*.tif").
glob(pln, chn) ==
    {k \in DOMAIN disk : k[1] = pln /\ IsPrefix(Digits(chn), Digits(k[2]))}

\* Line 124: f.unlink() for every file of the list.
unlink(fs) == [k \in (DOMAIN disk) \ fs |-> disk[k]]

\* Lines 166-169 and 179-182: the next output file's name.
output_tiff_fullpath == <<plane_idx, channel, Len(output_tiff_list)>>

\* A size counted in pages instead of bytes.
st_size_in_pages(k) == Len(disk[k])

\* output_tiff_fullpath.stat().st_size (line 207).
st_size(k) == Len(disk[k]) * page_size

\* The check of line 207 with > in place of >=.
size_reached_strict(size, gb_per_file) == gb_per_file # None /\ gb_per_file # 0 /\ size > gb_per_file

\* Line 207: gb_per_file and st_size >= gb_per_file * 1024 ** 3.
size_reached(size, gb_per_file) == gb_per_file # None /\ gb_per_file # 0 /\ size >= gb_per_file

\* tiff_names.pop(): the last element taken.
pop_last(list) == [taken |-> list[Len(list)], left |-> SubSeq(list, 1, Len(list) - 1)]

\* tiff_names.pop(0) (line 188): the element taken and the list left.
pop_first(list) == [taken |-> Head(list), left |-> Tail(list)]

Requests ==
    [plane_idx : {None, target.plane_idx} \cup InvalidIds,
     channel : {None, target.channel} \cup InvalidIds,
     overwrite : BOOLEAN,
     gb_per_file : {None} \cup 0..MaxThreshold]

\* Entering a with block (lines 150, 183 and 190) opens the handle h.
with_enter(handles, h) == handles \cup {h}

\* A with block left without closing its handle.
with_exit_skipped(handles, h) == handles

\* Leaving a with block, normally or by an exception, closes the handle h.
with_exit(handles, h) == handles \ {h}

Raised(error) == [status |-> "raised", error |-> error, single |-> FALSE, files |-> {}]

\* Lines 111-113: get_prairieview_filenames raises; nothing else runs.
CallRaises ==
    /\ pc = "idle"
    /\ \E a \in Requests :
        LET r == get_prairieview_filenames(a.plane_idx, a.channel)
        IN  /\ r.error # "ok"
            /\ args' = a
            /\ result' = Raised(r.error)
    /\ pc' = "done"
    /\ touched' = {}
    /\ UNCHANGED <<meta, files, disk, locals, prev, target>>

\* Lines 111-121: output files of the stem exist and overwrite is off.
CallReturnsExisting ==
    /\ pc = "idle"
    /\ \E a \in Requests :
        LET r == get_prairieview_filenames(a.plane_idx, a.channel)
            output_tiff_found == glob(r.plane_idx, r.channel)
        IN  /\ r.error = "ok"
            /\ output_tiff_found # {} /\ ~a.overwrite
            /\ args' = a
            /\ plane_idx' = r.plane_idx /\ channel' = r.channel
            \* output_tiff_list[0]: the first file in the directory's listing order
            /\ \E first \in output_tiff_found :
                result' = [status |-> "returned", error |-> "ok",
                           single |-> (a.gb_per_file = None),
                           files |-> IF a.gb_per_file = None THEN {first}
                                     ELSE output_tiff_found]
    /\ pc' = "done"
    /\ touched' = {}
    /\ UNCHANGED <<meta, files, disk, tiff_names, page_indices, combined_data, start_page,
                   output_tiff_list, input_file, tiff_writer, prev, target>>

\* Lines 111-147: old output deleted, the reassembly set up.
CallStarts ==
    /\ pc = "idle"
    /\ \E a \in Requests :
        LET r == get_prairieview_filenames(a.plane_idx, a.channel)
            output_tiff_found == glob(r.plane_idx, r.channel)
        IN  /\ r.error = "ok"
            /\ output_tiff_found = {} \/ a.overwrite
            /\ args' = a
            /\ plane_idx' = r.plane_idx /\ channel' = r.channel
            /\ tiff_names' = r.fnames
            /\ disk' = unlink(output_tiff_found)
            /\ touched' = output_tiff_found
            /\ IF is_multipage
               THEN /\ page_indices' = PageIndices(r.plane_idx, r.channel)
                    /\ \E g \in Uninitialised :
                        combined_data' = [t \in 1..num_frames |-> <<None, g>>]
                    /\ pc' = "mp_for"
               ELSE /\ page_indices' = <<>>
                    /\ combined_data' = <<>>
                    /\ pc' = "lg_outer"
    /\ start_page' = 0
    /\ output_tiff_list' = <<>>
    /\ prev' = NoPrev
    /\ UNCHANGED <<meta, files, input_file, tiff_writer, result, target>>

(* Multi-page layout, lines 148-176. *)

\* Line 150: the next file of tiff_names is opened.
MPOpen ==
    /\ pc = "mp_for" /\ tiff_names # <<>>
    /\ input_file' = with_enter(input_file, Head(tiff_names))
    /\ pc' = "mp_opened"
    /\ UNCHANGED <<meta, files, disk, plane_idx, channel, tiff_names, page_indices,
                   combined_data, start_page, output_tiff_list, tiff_writer,
                   args, result, prev, touched, target>>

\* Lines 152-156.
is_page_in_file(page, first, final_page_in_file) ==
    first <= page /\ page < final_page_in_file

\* The target pages of the file by their global index, the file's start not subtracted.
file_indices_global(first, final_page_in_file) ==
    SelectSeq(page_indices, LAMBDA page : is_page_in_file(page, first, final_page_in_file))

file_indices(first, final_page_in_file) ==
    LET pages_in_file ==
            SelectSeq(page_indices, LAMBDA page : is_page_in_file(page, first, final_page_in_file))
    IN  [k \in 1..Len(pages_in_file) |-> pages_in_file[k] - first]

global_indices(first, final_page_in_file) ==
    [t \in 1..Len(page_indices) |-> is_page_in_file(page_indices[t], first, final_page_in_file)]

\* tffl.asarray(key=file_indices): the pages of the file at those offsets.
asarray(name, key) == [k \in 1..Len(key) |-> <<name, key[k]>>]

\* combined_data[mask] = values (line 161): the k-th TRUE slot takes the k-th value.
MaskAssign(data, mask, values) ==
    [t \in 1..Len(data) |->
        IF mask[t]
        THEN values[Cardinality({u \in 1..t : mask[u]})]
        ELSE data[t]]

\* Lines 152-162: the file's target pages are copied into the buffer, the file closed.
MPRead ==
    /\ pc = "mp_opened"
    /\ LET name == Head(tiff_names)
           final_page_in_file == start_page + src_pages[name]
            key == file_indices(start_page, final_page_in_file)
            mask == global_indices(start_page, final_page_in_file)
        IN  /\ combined_data' = IF Len(key) > 0
                                THEN MaskAssign(combined_data, mask, asarray(name, key))
                                ELSE combined_data
            /\ start_page' = start_page + src_pages[name]
    /\ input_file' = with_exit(input_file, Head(tiff_names))
    /\ tiff_names' = Tail(tiff_names)
    /\ pc' = "mp_write"
    /\ UNCHANGED <<meta, files, disk, plane_idx, channel, page_indices, output_tiff_list,
                   tiff_writer, args, result, prev, touched, target>>

\* Lines 163-164: opening or reading the file fails; the with block closes it.
MPFail ==
    /\ pc = "mp_opened"
    /\ input_file' = with_exit(input_file, Head(tiff_names))
    /\ result' = Raised("Exception")
    /\ pc' = "done"
    /\ UNCHANGED <<meta, files, disk, plane_idx, channel, tiff_names, page_indices,
                   combined_data, start_page, output_tiff_list, tiff_writer,
                   args, prev, touched, target>>

\* Lines 166-176, in the body of the loop over tiff_names: the buffer is written.
MPImwrite ==
    /\ pc = "mp_write"
    /\ disk' = [k \in (DOMAIN disk) \cup {output_tiff_fullpath} |->
                    IF k = output_tiff_fullpath THEN combined_data ELSE disk[k]]
    /\ touched' = touched \cup {output_tiff_fullpath}
    /\ output_tiff_list' = Append(output_tiff_list, output_tiff_fullpath)
    /\ pc' = "mp_for"
    /\ UNCHANGED <<meta, files, plane_idx, channel, tiff_names, page_indices, combined_data,
                   start_page, input_file, tiff_writer, args, result, prev, target>>

(* Legacy layout, lines 178-209. *)

\* Lines 178-186: the next output part is created and its writer opened.
LGOpenWriter ==
    /\ pc = "lg_outer" /\ tiff_names # <<>>
    /\ disk' = [k \in (DOMAIN disk) \cup {output_tiff_fullpath} |->
                    IF k = output_tiff_fullpath THEN <<>> ELSE disk[k]]
    /\ touched' = touched \cup {output_tiff_fullpath}
    /\ tiff_writer' = with_enter(tiff_writer, output_tiff_fullpath)
    /\ pc' = "lg_inner"
    /\ UNCHANGED <<meta, files, plane_idx, channel, tiff_names, page_indices, combined_data,
                   start_page, output_tiff_list, input_file, args, result, prev, target>>

\* Lines 187-192: the next file is taken off tiff_names and opened.
LGOpen ==
    /\ pc = "lg_inner" /\ tiff_names # <<>>
    /\ input_file' = with_enter(input_file, pop_first(tiff_names).taken)
    /\ tiff_names' = pop_first(tiff_names).left
    /\ pc' = "lg_opened"
    /\ UNCHANGED <<meta, files, disk, plane_idx, channel, page_indices, combined_data,
                   start_page, output_tiff_list, tiff_writer, args, result, prev, touched,
                   target>>

\* Lines 193-204: the file's one page is written to the open part, the file closed.
LGWrite ==
    /\ pc = "lg_opened"
    /\ \E name \in input_file, k \in tiff_writer :
        /\ src_pages[name] = 1
        /\ disk' = [disk EXCEPT ![k] = Append(@, <<name, 0>>)]
        /\ input_file' = with_exit(input_file, name)
    /\ pc' = "lg_check"
    /\ UNCHANGED <<meta, files, plane_idx, channel, tiff_names, page_indices, combined_data,
                   start_page, output_tiff_list, tiff_writer, args, result, prev, touched,
                   target>>

\* Lines 193 and 205-206: the file does not hold exactly one page, or opening or
\* reading it fails; both with blocks close what they opened.
LGFail ==
    /\ pc = "lg_opened"
    /\ \E name \in input_file : input_file' = with_exit(input_file, name)
    /\ tiff_writer' = with_exit(tiff_writer, output_tiff_fullpath)
    /\ result' = Raised("Exception")
    /\ pc' = "done"
    /\ UNCHANGED <<meta, files, disk, plane_idx, channel, tiff_names, page_indices,
                   combined_data, start_page, output_tiff_list, args, prev, touched, target>>

\* Lines 207-208: the size check after the write.
LGCheck ==
    /\ pc = "lg_check"
    /\ \E k \in tiff_writer :
        pc' = IF size_reached(st_size(k), args.gb_per_file) THEN "lg_close" ELSE "lg_inner"
    /\ UNCHANGED <<meta, files, disk, locals, args, result, prev, touched, target>>

\* Line 209, after the break or with tiff_names empty: the part is closed and listed.
LGClose ==
    /\ pc = "lg_close" \/ (pc = "lg_inner" /\ tiff_names = <<>>)
    /\ output_tiff_list' = Append(output_tiff_list, output_tiff_fullpath)
    /\ tiff_writer' = with_exit(tiff_writer, output_tiff_fullpath)
    /\ pc' = "lg_outer"
    /\ UNCHANGED <<meta, files, disk, plane_idx, channel, tiff_names, page_indices,
                   combined_data, start_page, input_file, args, result, prev, touched, target>>

\* Line 211.
Return ==
    /\ pc \in {"mp_for", "lg_outer"} /\ tiff_names = <<>>
    /\ result' = [status |-> "returned", error |-> "ok",
                  single |-> (Len(output_tiff_list) = 1),
                  files |-> {output_tiff_list[i] : i \in 1..Len(output_tiff_list)}]
    /\ pc' = "done"
    /\ UNCHANGED <<meta, files, disk, locals, args, prev, touched, target>>

\* The caller has the outcome; the call's locals are gone.
Finish ==
    /\ pc = "done"
    /\ prev' = IF result.status = "returned" /\ output_tiff_list # <<>> /\ ~args.overwrite
               THEN [args |-> args, files |-> result.files]
               ELSE prev
    /\ pc' = "idle"
    /\ args' = NoArgs /\ result' = NoResult /\ touched' = {}
    /\ plane_idx' = None /\ channel' = None /\ tiff_names' = <<>>
    /\ page_indices' = <<>> /\ combined_data' = <<>> /\ start_page' = 0
    /\ output_tiff_list' = <<>> /\ input_file' = {} /\ tiff_writer' = {}
    /\ UNCHANGED <<meta, files, disk, target>>

Next ==
    \/ CallRaises \/ CallReturnsExisting \/ CallStarts
    \/ MPOpen \/ MPRead \/ MPFail \/ MPImwrite
    \/ LGOpenWriter \/ LGOpen \/ LGWrite \/ LGFail \/ LGCheck \/ LGClose
    \/ Return \/ Finish

Spec == Init /\ [][Next]_vars

(***************************************************************************)
(* SpecShared: write_single_bigtiff called for one (plane, channel) pair   *)
(* on an output directory that already holds output files of other pairs,  *)
(* written under the same output_prefix. The channels are 1 and 10.        *)
(***************************************************************************)
MaxSharedFrames == 1  \* time steps of an acquisition (SpecShared)

SharedChannelLists == {<<1, 10>>}

\* The pages an earlier call for the pair of k left in its output file k.
OtherOutput(k) == <<<<FileName(k[1], k[2], 1), 0>>>>

InitShared ==
    /\ channels \in SharedChannelLists
    /\ plane_indices \in MainPlaneLists
    /\ n_frames \in {T * num_planes : T \in 1..MaxSharedFrames}
    /\ is_multipage \in BOOLEAN
    /\ page_size = 1
    /\ \E counts \in Layouts :
        /\ xml_files = Descriptor(Len(counts))
        /\ src_pages = [name \in {xml_files[k].filename : k \in 1..Len(xml_files)} |->
                            counts[FileNumber(name)]]
    /\ IdleLocals
    /\ pc = "idle" /\ args = NoArgs /\ result = NoResult /\ prev = NoPrev /\ touched = {}
    /\ target \in {[plane_idx |-> plane_indices[i], channel |-> channels[j]] :
                       i \in 1..num_planes, j \in 1..num_channels}
    /\ \E others \in SUBSET {<<plane_indices[i], channels[j], 0>> :
                                 i \in 1..num_planes, j \in 1..num_channels} :
        /\ \A k \in others : <<k[1], k[2]>> # <<target.plane_idx, target.channel>>
        /\ disk = [k \in others |-> OtherOutput(k)]

SpecShared == InitShared /\ [][Next]_vars

(***************************************************************************)
(* What the claims speak of.                                               *)
(***************************************************************************)
Returned == pc = "done" /\ result.status = "returned"

\* The call wrote its output (it did not return files found on disk).
Wrote == output_tiff_list # <<>>

SetOf(list) == {list[i] : i \in 1..Len(list)}

\* The pages of a list of output files, one file after the other.
RECURSIVE PagesOf(_)
PagesOf(list) == IF list = <<>> THEN <<>> ELSE disk[Head(list)] \o PagesOf(Tail(list))

\* Output files in part-number order (_0000, _0001, ...).
RECURSIVE InPartOrder(_)
InPartOrder(fs) ==
    IF fs = {} THEN <<>>
    ELSE LET k == CHOOSE x \in fs : \A y \in fs : x[3] <= y[3]
         IN  <<k>> \o InPartOrder(fs \ {k})

\* The files the File Resolver gives for the selected stream.
Resolved == get_prairieview_filenames(args.plane_idx, args.channel).fnames

\* The page at global index g of the concatenation of the files of list.
RECURSIVE GlobalPage(_, _)
GlobalPage(list, g) ==
    IF g < src_pages[Head(list)] THEN <<Head(list), g>>
    ELSE GlobalPage(Tail(list), g - src_pages[Head(list)])

\* The requested stream: one page per time step.
Stream ==
    IF is_multipage
    THEN [t \in 1..num_frames |->
             GlobalPage(Resolved,
                        (t - 1) * (num_channels * num_planes)
                          + Index(plane_indices, plane_idx) * num_channels
                          + Index(channels, channel))]
    ELSE [t \in 1..Len(Resolved) |-> <<Resolved[t], 0>>]

\* C1: in the multi-page layout the output buffer is written only after all
\* resolved source files have been consumed, and a call that writes produces exactly
\* one output file, for any number of source files and any gb_per_file.
MultipageWritesOnceAtEnd ==
    is_multipage =>
        /\ Wrote => tiff_names = <<>>
        /\ (Returned /\ Wrote) => (Len(output_tiff_list) = 1 /\ Cardinality(result.files) = 1)

\* C2: every call that returns without raising returns output files that together
\* hold exactly num_timepoints pages of the requested stream, every position filled
\* from its source page, also after a call that raised midway and a retry with
\* overwrite=False.
ReturnedOutputIsComplete ==
    Returned =>
        /\ result.files \subseteq DOMAIN disk
        /\ PagesOf(InPartOrder(result.files)) = Stream
        /\ Len(Stream) = num_frames

\* C3: a call with the arguments of the call that wrote the output, overwrite=False,
\* returns the same set of output files and writes and deletes no file.
SecondCallReturnsSameFiles ==
    (Returned /\ prev # NoPrev /\ args = prev.args) =>
        (result.files = prev.files /\ touched = {} /\ ~Wrote)

\* C6 as claimed, for two or more source files and a nonzero gb_per_file: in the
\* legacy layout a threshold smaller than the total size of the output gives more
\* than one output file, wherever the running size first reaches the threshold, the
\* last source page included.
LegacySplitsWhenLastPageReaches ==
    (Returned /\ Wrote /\ ~is_multipage /\ args.gb_per_file # None
        /\ args.gb_per_file # 0 /\ Len(Resolved) >= 2
        /\ args.gb_per_file < Len(PagesOf(output_tiff_list)) * page_size)
        => Len(output_tiff_list) > 1

\* C6, amended: in the legacy layout with a nonzero gb_per_file, the call produces
\* more than one output file when the running size reaches the threshold before the
\* last source page is written, and exactly one when the threshold is first reached
\* by the last source page or not at all; with gb_per_file 0 it produces one.
LegacySplitsBeforeLastPage ==
    (Returned /\ Wrote /\ ~is_multipage /\ args.gb_per_file # None) =>
        LET before_last == (Len(Resolved) - 1) * page_size
        IN  IF args.gb_per_file # 0 /\ before_last >= args.gb_per_file
            THEN Len(output_tiff_list) > 1
            ELSE Len(output_tiff_list) = 1

\* A legacy call of three files that split, and one whose threshold the last page reached.
LegacySplitReached ==
    /\ Returned /\ Wrote /\ ~is_multipage
    /\ args.gb_per_file = 2 /\ page_size = 1 /\ Len(Resolved) = 3
    /\ Len(output_tiff_list) = 2

\* The output parts of the running call: those closed and the open one.
Parts == SetOf(output_tiff_list) \cup tiff_writer

\* The size of an output file: its pages' bytes.
Bytes(k) == Len(disk[k]) * page_size

LegacyPartsHoldResolvedFiles ==
    (Returned /\ Wrote /\ ~is_multipage) =>
        /\ PagesOf(output_tiff_list) = [i \in 1..Len(Resolved) |-> <<Resolved[i], 0>>]
        /\ \A i \in 1..Len(output_tiff_list) :
               /\ output_tiff_list[i] = <<plane_idx, channel, i - 1>>
               /\ disk[output_tiff_list[i]] # <<>>
        /\ result.files = SetOf(output_tiff_list)
        /\ args.gb_per_file = None =>
               /\ Len(output_tiff_list) = 1
               /\ Len(disk[output_tiff_list[1]]) = Len(Resolved)

\* Three files in two parts.
LegacyTwoPartsReached ==
    /\ Returned /\ Wrote /\ ~is_multipage
    /\ Len(Resolved) = 3 /\ Len(output_tiff_list) = 2
    /\ Len(disk[output_tiff_list[1]]) = 2 /\ Len(disk[output_tiff_list[2]]) = 1

\* C10: an omitted plane_idx is the sole plane when there is one plane and an error
\* when there are several, likewise for channel; a plane_idx or channel not in the
\* metadata is an error; on an error no file list is returned and no output file is
\* deleted or written.
SelectionRules ==
    pc = "done" =>
        LET plane_error ==
                IF args.plane_idx = None THEN Len(plane_indices) > 1
                ELSE \A i \in 1..Len(plane_indices) : plane_indices[i] # args.plane_idx
            channel_error ==
                IF args.channel = None THEN Len(channels) > 1
                ELSE \A i \in 1..Len(channels) : channels[i] # args.channel
        IN  IF plane_error \/ channel_error
            THEN /\ result.status = "raised"
                 /\ result.error \in {"ValueError", "AssertionError"}
                 /\ result.files = {}
                 /\ touched = {} /\ ~Wrote
            ELSE /\ result.error \notin {"ValueError", "AssertionError"}
                 /\ plane_idx = IF args.plane_idx = None THEN plane_indices[1] ELSE args.plane_idx
                 /\ channel = IF args.channel = None THEN channels[1] ELSE args.channel

\* An omitted plane_idx with two planes, overwrite on, output files on disk.
SelectionErrorReached ==
    /\ pc = "done" /\ result.status = "raised"
    /\ args.plane_idx = None /\ Len(plane_indices) = 2
    /\ args.overwrite /\ DOMAIN disk # {}

\* C12: a call for one (plane, channel) pair returns, deletes and writes only output
\* files of that pair; the output files of the other pairs under the same prefix and
\* directory stay as they were, whether overwrite is on or off and whatever the
\* identifiers are, channels 1 and 10 included.
CallKeepsToItsPair ==
    LET own(k) == k[1] = target.plane_idx /\ k[2] = target.channel
    IN  /\ \A k \in touched : own(k)
        /\ \A k \in result.files : own(k)
        /\ \A k \in DOMAIN disk : ~own(k) => disk[k] = OtherOutput(k)

\* The pages of the files that come before name in list.
RECURSIVE PagesBefore(_, _)
PagesBefore(list, name) ==
    IF list = <<>> \/ Head(list) = name THEN 0
    ELSE src_pages[Head(list)] + PagesBefore(Tail(list), name)

\* One pass of the loop over the files in the multi-page layout: the file name, whose
\* first page has global index file_start_offset, is read and closed.
MultipageFillStep ==
    (is_multipage /\ pc = "mp_opened" /\ pc' = "mp_write") =>
        LET name == CHOOSE n \in input_file : TRUE
            file_start_offset == PagesBefore(Resolved, name)
            file_end == file_start_offset + src_pages[name]
        IN  /\ start_page = file_start_offset
            /\ start_page' = file_end
            /\ Len(combined_data') = Len(page_indices)
            /\ \A t \in 1..Len(page_indices) :
                   IF file_start_offset <= page_indices[t] /\ page_indices[t] < file_end
                   THEN /\ combined_data[t][1] = None
                        /\ combined_data'[t] = <<name, page_indices[t] - file_start_offset>>
                   ELSE combined_data'[t] = combined_data[t]
            /\ tiff_names' = <<>> =>
                   \A t \in 1..Len(page_indices) :
                       combined_data'[t] = GlobalPage(Resolved, page_indices[t])

\* C13: in the multi-page layout, for any division of the pages into resolved files,
\* each pass of the loop reads the targets that fall in its file, at in-file offset
\* (global index - file_start_offset), into output positions not written before and
\* leaves the other positions alone, file_start_offset advancing by the file's page
\* count; when the loop has finished, position t of the buffer holds the page whose
\* global index in the concatenation of the resolved files is targets[t].
MultipageFillsBufferFromTargets == [][MultipageFillStep]_vars

\* Three time steps in files of one page and two: the loop is over and the second
\* file gave the positions 2 and 3, the last from its in-file offset 1.
MultipageTwoFilesFilled ==
    /\ is_multipage /\ pc = "mp_write" /\ tiff_names = <<>>
    /\ Len(Resolved) = 2 /\ Len(combined_data) = 3
    /\ src_pages[Resolved[1]] = 1 /\ src_pages[Resolved[2]] = 2
    /\ combined_data = <<<<Resolved[1], 0>>, <<Resolved[2], 0>>, <<Resolved[2], 1>>>>

\* C14: at every point of a write_single_bigtiff run, in both layouts, at most one
\* source file and at most one output writer are open; when reading a source file or
\* checking its page count fails, the source file and the output writer are closed
\* by the time the caller has the error, as they are when the call returns.
OneSourceAndOneWriterOpen ==
    /\ Cardinality(input_file) <= 1
    /\ Cardinality(tiff_writer) <= 1
    /\ pc = "done" => (input_file = {} /\ tiff_writer = {})

\* A legacy call whose second source file failed, after the first file's page had
\* gone through the open writer into the first output part.
LegacyFailureClosedBoth ==
    /\ pc = "done" /\ result.status = "raised" /\ result.error = "Exception"
    /\ ~is_multipage
    /\ \E k \in touched : k \in DOMAIN disk /\ Len(disk[k]) = 1
    /\ input_file = {} /\ tiff_writer = {}

====
